---------------------------- MODULE Spec2Model ----------------------------
(***************************************************************************)
(* PokeIndex: the ingestion pipeline of get_poke_index.py (remote catalog  *)
(* client, relational normalizer, sync orchestrator), and the consumers of *)
(* the store in app.py and export_static_data.py (genealogy graph builder, *)
(* localized names).                                                       *)
(*                                                                         *)
(* Strings that the code inspects character by character (identifiers)     *)
(* are sequences of one-character strings.  A store is the content of the  *)
(* SQLite file as one connection sees it: the pokemon table and the eight  *)
(* child tables.                                                           *)
(***************************************************************************)
EXTENDS Integers, Sequences, FiniteSets, TLC

VARIABLES
    pc,         \* position of main(), or the phase of a normalizer/client run
    args,       \* the parsed command line (names, limit, offset, page_size, ...)
    catalog,    \* number of entities the remote catalog lists
    gen,        \* frame of the iter_pokemon_targets generator
    cur,        \* the target the generator has just yielded, or None
    yielded,    \* every target yielded so far, in order
    attempted,  \* main's log: <<target name, "ok" | "failed">> per process_pokemon call
    processed,  \* main's counter of successfully processed targets
    commits,    \* value of `processed` at each connection.commit() of the loop
    db,         \* committed content of the database file
    txn,        \* content as seen through the connection (db + open transaction)
    clock,      \* CURRENT_TIMESTAMP
    reported,   \* Some(count) once "Completed sync for %s" is logged, None before
    exitCode,   \* "running", then "0" or "1" as main() returns, "raised" if it ends by exception
    doc,        \* normalizer run: the documents to apply next
    applied,    \* normalizer run: the documents applied last
    before,     \* normalizer run: the store before the last application
    once,       \* normalizer run: the store after the first of two applications
    outcome,    \* normalizer run: how the last application ended
    http,       \* client run: state of one session.get() call
    loadedRows, \* graph builder: the pokemon rows (`rows`), in the order they were loaded
    graph,      \* graph builder: {"index": ..., "children": ...}, None before loading
    chain,      \* graph builder: frame of build_evolution_chain / build_chain
    speciesBlob,\* localization: the species document given to extract_localized_names
    localized   \* localization: the names it returned, None before the call

vars == <<pc, args, catalog, gen, cur, yielded, attempted, processed, commits,
          db, txn, clock, reported, exitCode, doc, applied, before, once,
          outcome, http, loadedRows, graph, chain, speciesBlob, localized>>

\* the variables of the consumers of the store (app.py, export_static_data.py)
readerVars == <<loadedRows, graph, chain, speciesBlob, localized>>

\* Python's None, where the value is otherwise a dict; an optional number n is
\* None or Some(n).
None == [none |-> TRUE]
Some(n) == [value |-> n]

---------------------------------------------------------------------------
(* Generic helpers.                                                        *)

SeqsUpTo(S, n) == UNION {[1..k -> S] : k \in 0..n}

Min(a, b) == IF a < b THEN a ELSE b
Max(a, b) == IF a > b THEN a ELSE b

\* list(dict.fromkeys(entries)): drops every later occurrence of an equal tuple
RECURSIVE DictFromKeys(_)
DictFromKeys(entries) ==
    IF entries = <<>> THEN <<>>
    ELSE LET init == DictFromKeys(SubSeq(entries, 1, Len(entries) - 1))
             last == entries[Len(entries)]
         IN  IF \E i \in 1..Len(init) : init[i] = last
             THEN init
             ELSE Append(init, last)

---------------------------------------------------------------------------
(* The schema (ensure_schema).                                             *)

Collections ==
    << "pokemon_abilities", "pokemon_types", "pokemon_stats", "pokemon_moves",
       "pokemon_held_items", "pokemon_game_indices", "pokemon_forms",
       "pokemon_past_types" >>

CollectionNames == {Collections[i] : i \in 1..Len(Collections)}

\* Tables whose PRIMARY KEY lists every column of the row.
WholeRowKey == {"pokemon_moves", "pokemon_forms"}

\* A child row is [pokemon_id, key, rest]: `key` stands for the columns that
\* the table's PRIMARY KEY names beside pokemon_id, `rest` for the others
\* (for a WholeRowKey table `rest` is in the primary key as well).
PrimaryKey(c, row) ==
    IF c \in WholeRowKey
    THEN <<row.pokemon_id, row.key, row.rest>>
    ELSE <<row.pokemon_id, row.key>>

EmptyStore == [pokemon |-> {}, coll |-> [c \in CollectionNames |-> {}]]

\* The constraints the schema enforces on every stored state.
SchemaHolds(store) ==
    /\ \A r, s \in store.pokemon : (r.id = s.id \/ r.name = s.name) => r = s
    /\ \A c \in CollectionNames : \A r, s \in store.coll[c] :
           PrimaryKey(c, r) = PrimaryKey(c, s) => r = s
    /\ \A c \in CollectionNames : \A r \in store.coll[c] :
           \E p \in store.pokemon : p.id = r.pokemon_id

---------------------------------------------------------------------------
(* Relational normalizer.                                                  *)

\* species.get("color", {}).get("name") if species.get("color") else None
NestedName(obj) == IF obj = None THEN None ELSE obj.name

UpsertValues(pokemon, species) ==
    [ id            |-> pokemon.id,
      name          |-> pokemon.name,
      height        |-> pokemon.height,
      species_name  |-> species.name,
      species_color |-> NestedName(species.color),
      species_json  |-> species ]

WithTimestamp(values, now) ==
    [ id            |-> values.id,
      name          |-> values.name,
      height        |-> values.height,
      species_name  |-> values.species_name,
      species_color |-> values.species_color,
      species_json  |-> values.species_json,
      updated_at    |-> now ]

\* INSERT INTO pokemon ... ON CONFLICT(id) DO UPDATE SET ..., updated_at=CURRENT_TIMESTAMP
\* The UNIQUE constraint on name is not the conflict target: it raises.
upsert_pokemon_row(store, pokemon, species, now) ==
    LET values == UpsertValues(pokemon, species)
        others == {r \in store.pokemon : r.id # values.id}
    IN  IF \E r \in others : r.name = values.name
        THEN [ok |-> FALSE, store |-> store]
        ELSE [ok |-> TRUE,
              store |-> [store EXCEPT
                           !.pokemon = others \cup {WithTimestamp(values, now)}]]

\* cursor.executemany(insert_sql, entries): one INSERT per entry, in order; the
\* first entry whose primary key is already in the table raises, and the rows
\* inserted before it stay in the open transaction.
RECURSIVE ExecuteMany(_, _, _)
ExecuteMany(c, table, entries) ==
    IF entries = <<>> THEN [ok |-> TRUE, table |-> table]
    ELSE IF \E r \in table : PrimaryKey(c, r) = PrimaryKey(c, Head(entries))
         THEN [ok |-> FALSE, table |-> table]
         ELSE ExecuteMany(c, table \cup {Head(entries)}, Tail(entries))

\* Mutant of reset_and_insert: the DELETE is left out (rows are merged).
reset_and_insert_no_delete(table, c, rows, pokemon_id) ==
    IF rows # <<>>
    THEN ExecuteMany(c, table, DictFromKeys(rows))
    ELSE [ok |-> TRUE, table |-> table]

\* Mutant of reset_and_insert: entries equal to a row stored before the DELETE
\* are taken as already seen and are not inserted again.
reset_and_insert_skip_stored(table, c, rows, pokemon_id) ==
    LET kept  == {r \in table : r.pokemon_id # pokemon_id}
        fresh == SelectSeq(DictFromKeys(rows), LAMBDA r : r \notin table)
    IN  IF rows # <<>>
        THEN ExecuteMany(c, kept, fresh)
        ELSE [ok |-> TRUE, table |-> kept]

reset_and_insert(table, c, rows, pokemon_id) ==
    LET kept == {r \in table : r.pokemon_id # pokemon_id}
    IN  IF rows # <<>>
        THEN ExecuteMany(c, kept, DictFromKeys(rows))
        ELSE [ok |-> TRUE, table |-> kept]

\* The generator expression of one reset_and_insert call: one tuple per entry
\* of the document's list, led by pokemon_id.
RowsOf(pokemon, c) ==
    [i \in 1..Len(pokemon.sub[c]) |->
        [pokemon_id |-> pokemon.id,
         key        |-> pokemon.sub[c][i][1],
         rest       |-> pokemon.sub[c][i][2]]]

\* sync_collections from its i-th reset_and_insert call on; an exception of
\* one call skips the calls after it.
RECURSIVE SyncFrom(_, _, _)
SyncFrom(store, pokemon, i) ==
    IF i > Len(Collections) THEN [ok |-> TRUE, store |-> store]
    ELSE LET c == Collections[i]
             r == reset_and_insert(store.coll[c], c, RowsOf(pokemon, c), pokemon.id)
             s == [store EXCEPT !.coll[c] = r.table]
         IN  IF r.ok THEN SyncFrom(s, pokemon, i + 1)
             ELSE [ok |-> FALSE, store |-> s]

sync_collections(store, pokemon) == SyncFrom(store, pokemon, 1)

\* Lines 494-495 of process_pokemon: the two writes, in order.
UpsertAndSync(store, pokemon, species, now) ==
    LET u == upsert_pokemon_row(store, pokemon, species, now)
    IN  IF ~u.ok THEN [outcome |-> "core_conflict", store |-> u.store]
        ELSE LET s == sync_collections(u.store, pokemon)
             IN  [outcome |-> IF s.ok THEN "ok" ELSE "child_conflict",
                  store |-> s.store]

---------------------------------------------------------------------------
(* Normalizer runs: documents drawn from bounded sets are applied to a     *)
(* store, the second of them twice in a row.                               *)

MaxRows == 2

DocIds == {1, 2}
DocNames == {<<"a">>, <<"b">>}
DocHeights == {1, 2}
DefaultName(id) == IF id = 1 THEN <<"a">> ELSE <<"b">>

\* <<key, rest>> of one entry of a repeated structure of the entity document
RowValues == {<<1, 1>>, <<1, 2>>, <<2, 1>>}
RowLists == SeqsUpTo(RowValues, MaxRows)

SpeciesUrl(id) == [path |-> "pokemon-species", id |-> id]

\* An entity document whose list for table `focus` is `rows`; every other
\* list holds the single entry <<1, height>>.
PokemonDoc(id, name, height, focus, rows) ==
    [ id          |-> id,
      name        |-> name,
      height      |-> height,
      species_url |-> SpeciesUrl(id),
      sub         |-> [c \in CollectionNames |->
                          IF c = focus THEN rows ELSE << <<1, height>> >>] ]

SpeciesDoc(name, height) ==
    [ name  |-> name,
      color |-> IF height = 1 THEN None ELSE [name |-> "green"],
      evolves_from_species |-> None ]

SeedInputs(focus) ==
    { [pokemon |-> PokemonDoc(id, DefaultName(id), 1, focus, rows),
       species |-> SpeciesDoc(DefaultName(id), 1),
       focus   |-> focus] : id \in DocIds, rows \in RowLists }

SyncInputs(focus) ==
    { [pokemon |-> PokemonDoc(x[1], x[2], x[3], focus, x[4]),
       species |-> SpeciesDoc(x[2], x[3]),
       focus   |-> focus] : x \in DocIds \X DocNames \X DocHeights \X RowLists }

ReaderIdle ==
    /\ loadedRows = <<>> /\ graph = None /\ chain = None
    /\ speciesBlob = None /\ localized = None

OrchIdle ==
    /\ args = None /\ catalog = 0 /\ gen = None /\ cur = None
    /\ yielded = <<>> /\ attempted = <<>> /\ processed = 0 /\ commits = <<>>
    /\ db = EmptyStore /\ reported = None /\ exitCode = "running"

InitSync ==
    /\ pc = "sync_seed"
    /\ OrchIdle
    /\ txn = EmptyStore
    /\ clock = 1
    /\ \E f \in CollectionNames : doc \in SeedInputs(f)
    /\ applied = None /\ before = EmptyStore /\ once = EmptyStore
    /\ outcome = "none"
    /\ http = None
    /\ ReaderIdle

\* upsert_pokemon_row followed by sync_collections on the documents in `doc`
Apply ==
    LET r == UpsertAndSync(txn, doc.pokemon, doc.species, clock)
    IN  /\ txn' = r.store
        /\ outcome' = r.outcome
        /\ before' = txn
        /\ applied' = doc
        /\ clock' = clock + 1

SyncSeed ==
    /\ pc = "sync_seed"
    /\ Apply
    /\ doc' \in SyncInputs(doc.focus)
    /\ pc' = "sync_once"
    /\ UNCHANGED <<once, http, readerVars>>
    /\ UNCHANGED <<args, catalog, gen, cur, yielded, attempted, processed,
                   commits, db, reported, exitCode>>

SyncOnce ==
    /\ pc = "sync_once"
    /\ Apply
    /\ once' = txn'
    /\ pc' = "sync_twice"
    /\ UNCHANGED <<doc, http, readerVars>>
    /\ UNCHANGED <<args, catalog, gen, cur, yielded, attempted, processed,
                   commits, db, reported, exitCode>>

SyncTwice ==
    /\ pc = "sync_twice"
    /\ Apply
    /\ pc' = "sync_done"
    /\ UNCHANGED <<doc, once, http, readerVars>>
    /\ UNCHANGED <<args, catalog, gen, cur, yielded, attempted, processed,
                   commits, db, reported, exitCode>>

NextSync == SyncSeed \/ SyncOnce \/ SyncTwice

SpecSync == InitSync /\ [][NextSync]_vars


---------------------------------------------------------------------------
(* Properties of the normalizer.                                           *)

Range(f) == {f[i] : i \in DOMAIN f}

RowsFor(store, c, id) == {r \in store.coll[c] : r.pokemon_id = id}
RowsNotFor(store, c, id) == {r \in store.coll[c] : r.pokemon_id # id}

\* A core row without its updated_at column
Untimed(r) == [f \in DOMAIN r \ {"updated_at"} |-> r[f]]

SameButTimestamp(s, t) ==
    /\ s.coll = t.coll
    /\ {Untimed(r) : r \in s.pokemon} = {Untimed(r) : r \in t.pokemon}
    /\ Cardinality(s.pokemon) = Cardinality(t.pokemon)

Applied == pc \in {"sync_once", "sync_twice", "sync_done"}

\* C5 (upsert idempotence): after upsert_pokemon_row + sync_collections have
\* been applied twice in a row to the same entity and detail documents, the
\* pokemon table (updated_at aside) and each of the eight child tables equal
\* what they were after the first application, and no table holds two rows
\* for one primary key.
C5_UpsertIdempotent ==
    pc = "sync_done" => SameButTimestamp(txn, once) /\ SchemaHolds(txn)

\* C5 witness: a second application that succeeded, stored child rows, and
\* refreshed the timestamp of the core row.
C5_Witness ==
    /\ pc = "sync_done"
    /\ outcome = "ok"
    /\ \A c \in CollectionNames : RowsFor(txn, c, applied.pokemon.id) # {}
    /\ txn # once

\* C6 (full-replace correctness): after a successful sync of an entity each
\* child table holds, for that pokemon_id, exactly the rows derived from the
\* document just applied (rows of an earlier sync that the document no
\* longer has are gone), and the rows of every other pokemon_id are as they
\* were.
C6_FullReplace ==
    (Applied /\ outcome = "ok") =>
        \A c \in CollectionNames :
            /\ RowsFor(txn, c, applied.pokemon.id) = Range(RowsOf(applied.pokemon, c))
            /\ RowsNotFor(txn, c, applied.pokemon.id)
                   = RowsNotFor(before, c, applied.pokemon.id)

\* C6 witness: a successful sync removed a row stored by an earlier sync of
\* the same entity and kept another one.
C6_Witness ==
    /\ pc = "sync_twice"
    /\ outcome = "ok"
    /\ \E c \in CollectionNames :
          /\ RowsFor(before, c, applied.pokemon.id) \ txn.coll[c] # {}
          /\ RowsFor(before, c, applied.pokemon.id) \cap txn.coll[c] # {}

\* Two entries of one list of the document have the same natural key (the
\* table's primary key).
HasRepeatedKey(pokemon, c) ==
    \E i, j \in 1..Len(pokemon.sub[c]) :
        /\ i < j
        /\ PrimaryKey(c, RowsOf(pokemon, c)[i]) = PrimaryKey(c, RowsOf(pokemon, c)[j])

\* C7 (natural-key de-duplication): when a list of the entity document holds
\* two entries with the same natural key, the entries are collapsed to one
\* before insertion, so that no insert violates the primary key and the
\* entity is stored, also when the repeated entries differ outside the key.
C7_NaturalKeyDedup ==
    (/\ Applied
     /\ outcome # "core_conflict"
     /\ \E c \in CollectionNames : HasRepeatedKey(applied.pokemon, c))
    => /\ outcome = "ok"
       /\ \A c \in CollectionNames :
            Cardinality(RowsFor(txn, c, applied.pokemon.id))
              = Cardinality({PrimaryKey(c, r) : r \in Range(RowsOf(applied.pokemon, c))})
---------------------------------------------------------------------------
(* Remote catalog client: target resolution (iter_pokemon_targets).        *)

API_BASE == "https://pokeapi.co/api/v2"
MAX_PAGE_SIZE == 500
DEFAULT_PAGE_SIZE == 200

\* str.lower() and str.strip() on a string given as a sequence of characters
LowerChar(ch) ==
    CASE ch = "A" -> "a"
      [] ch = "B" -> "b"
      [] ch = "Z" -> "z"
      [] OTHER -> ch

Lower(str) == [i \in 1..Len(str) |-> LowerChar(str[i])]

IsSpace(ch) == ch = " "

RECURSIVE LStrip(_)
LStrip(str) ==
    IF str # <<>> /\ IsSpace(Head(str)) THEN LStrip(Tail(str)) ELSE str

RECURSIVE RStrip(_)
RStrip(str) ==
    IF str # <<>> /\ IsSpace(str[Len(str)])
    THEN RStrip(SubSeq(str, 1, Len(str) - 1))
    ELSE str

Strip(str) == RStrip(LStrip(str))

\* Mutant of Identifier: the name is trimmed but not lowercased.
IdentifierNoLower(name) == Strip(name)

\* identifier = str(name).strip().lower()
Identifier(name) == Lower(Strip(name))

EntityUrl(identifier) == [base |-> API_BASE, path |-> "pokemon", id |-> identifier]

Target(identifier) == [name |-> identifier, url |-> EntityUrl(identifier)]

ListUrl(offset, limit) ==
    [base |-> API_BASE, path |-> "pokemon", offset |-> offset, limit |-> limit]

\* The catalog the remote lists: entity i has the name CatalogName(i).
Letters == <<"a", "b", "c", "d", "e", "f", "g">>
CatalogName(i) == <<Letters[i]>>

\* GET of a listing URL against a catalog of `total` entities: the page of
\* entries and the cursor to the next page (None on the last page).
ListingPage(url, total) ==
    LET first == url.offset + 1
        last  == Min(url.offset + url.limit, total)
    IN  [ results |-> [i \in 1..Max(last - first + 1, 0) |->
                          Target(CatalogName(first + i - 1))],
          next    |-> IF url.offset + url.limit < total
                      THEN ListUrl(url.offset + url.limit, url.limit)
                      ELSE None ]

\* Mutant of LimitReached: the comparison is off by one.
LimitReachedOffByOne(limit, fetched) == limit # None /\ fetched > limit.value

\* limit is not None and fetched >= limit
LimitReached(limit, fetched) == limit # None /\ fetched >= limit.value

\* The generator's frame before its first resumption
GenFrame ==
    [ pc |-> "start", i |-> 1, seen |-> {}, capped_page |-> 0, fetched |-> 0,
      next_url |-> None, payload_next |-> None, buf |-> <<>>, requests |-> 0 ]

\* The consumer is waiting for the next item of the generator.
Resumed == pc \in {"iter", "loop"} /\ cur = None

nonGenVars == <<pc, args, catalog, attempted, processed, commits, db, txn,
                clock, reported, exitCode, doc, applied, before, once,
                outcome, http, readerVars>>

\* Lines 252-253 / 265-267: entry into one of the two modes
GenStart ==
    /\ Resumed
    /\ gen.pc = "start"
    /\ gen' = IF args.names # <<>>
              THEN [gen EXCEPT !.pc = "names"]
              ELSE LET capped == Max(1, Min(args.page_size, MAX_PAGE_SIZE))
                   IN  [gen EXCEPT !.pc = "while",
                                   !.capped_page = capped,
                                   !.next_url = ListUrl(args.offset, capped)]
    /\ UNCHANGED <<cur, yielded>>
    /\ UNCHANGED nonGenVars

\* Lines 254-257: an empty or already seen identifier is passed over
GenNamesSkip ==
    /\ Resumed
    /\ gen.pc = "names"
    /\ gen.i <= Len(args.names)
    /\ LET identifier == Identifier(args.names[gen.i])
       IN  /\ identifier = <<>> \/ identifier \in gen.seen
           /\ gen' = [gen EXCEPT !.i = gen.i + 1]
    /\ UNCHANGED <<cur, yielded>>
    /\ UNCHANGED nonGenVars

\* Lines 258-262: a new identifier is yielded with its detail URL
GenNamesYield ==
    /\ Resumed
    /\ gen.pc = "names"
    /\ gen.i <= Len(args.names)
    /\ LET identifier == Identifier(args.names[gen.i])
       IN  /\ ~(identifier = <<>> \/ identifier \in gen.seen)
           /\ gen' = [gen EXCEPT !.i = gen.i + 1,
                                 !.seen = gen.seen \cup {identifier}]
           /\ cur' = Target(identifier)
           /\ yielded' = Append(yielded, Target(identifier))
    /\ UNCHANGED nonGenVars

\* Line 263: return after the last name
GenNamesReturn ==
    /\ Resumed
    /\ gen.pc = "names"
    /\ gen.i > Len(args.names)
    /\ gen' = [gen EXCEPT !.pc = "returned"]
    /\ UNCHANGED <<cur, yielded>>
    /\ UNCHANGED nonGenVars

\* Lines 269-272: the listing page is requested and answered
GenRequestPage ==
    /\ Resumed
    /\ gen.pc = "while"
    /\ gen.next_url # None
    /\ LET payload == ListingPage(gen.next_url, catalog)
       IN  gen' = [gen EXCEPT !.pc = "for",
                              !.buf = payload.results,
                              !.payload_next = payload.next,
                              !.requests = gen.requests + 1]
    /\ UNCHANGED <<cur, yielded>>
    /\ UNCHANGED nonGenVars

\* Lines 270-271: the request fails (retries exhausted, or an error status):
\* session.get or response.raise_for_status() raises out of the generator
GenRequestFails ==
    /\ Resumed
    /\ gen.pc = "while"
    /\ gen.next_url # None
    /\ gen' = [gen EXCEPT !.pc = "raised", !.requests = gen.requests + 1]
    /\ UNCHANGED <<cur, yielded>>
    /\ UNCHANGED nonGenVars

\* Line 269: the loop ends when there is no next URL
GenWhileEnd ==
    /\ Resumed
    /\ gen.pc = "while"
    /\ gen.next_url = None
    /\ gen' = [gen EXCEPT !.pc = "returned"]
    /\ UNCHANGED <<cur, yielded>>
    /\ UNCHANGED nonGenVars

\* Lines 273-277: the next entry of the page is yielded
GenYieldEntry ==
    /\ Resumed
    /\ gen.pc = "for"
    /\ gen.buf # <<>>
    /\ ~LimitReached(args.limit, gen.fetched)
    /\ gen' = [gen EXCEPT !.buf = Tail(gen.buf), !.fetched = gen.fetched + 1]
    /\ cur' = Head(gen.buf)
    /\ yielded' = Append(yielded, Head(gen.buf))
    /\ UNCHANGED nonGenVars

\* Lines 274-275: return in the middle of a page once the cap is reached
GenLimitReturn ==
    /\ Resumed
    /\ gen.pc = "for"
    /\ gen.buf # <<>>
    /\ LimitReached(args.limit, gen.fetched)
    /\ gen' = [gen EXCEPT !.pc = "returned"]
    /\ UNCHANGED <<cur, yielded>>
    /\ UNCHANGED nonGenVars

\* Lines 278-280: end of a page: follow the cursor, or break at the cap
GenPageEnd ==
    /\ Resumed
    /\ gen.pc = "for"
    /\ gen.buf = <<>>
    /\ gen' = [gen EXCEPT !.next_url = gen.payload_next,
                          !.pc = IF LimitReached(args.limit, gen.fetched)
                                 THEN "returned" ELSE "while"]
    /\ UNCHANGED <<cur, yielded>>
    /\ UNCHANGED nonGenVars

GenNext ==
    \/ GenStart
    \/ GenNamesSkip
    \/ GenNamesYield
    \/ GenNamesReturn
    \/ GenRequestPage
    \/ GenRequestFails
    \/ GenWhileEnd
    \/ GenYieldEntry
    \/ GenLimitReturn
    \/ GenPageEnd

---------------------------------------------------------------------------
(* Target resolution on its own: a consumer that takes every item.         *)

MaxCatalog == 4
MaxLimit == 3
MaxNames == 3

RawNames ==
    { <<"a">>, <<"A">>, <<" ", "a">>, <<"b", " ">>, <<"B">>, <<" ">>, <<>> }

PageSizes == {0, 1, 2, 3, MAX_PAGE_SIZE, MAX_PAGE_SIZE + 1}

Limits == {None} \cup {Some(n) : n \in 0..MaxLimit}

Args(names, limit, offset, page_size, batch_size) ==
    [ names |-> names, limit |-> limit, offset |-> offset,
      page_size |-> page_size, batch_size |-> batch_size ]

IterArgs ==
    { Args(names, None, 0, DEFAULT_PAGE_SIZE, 1) :
          names \in SeqsUpTo(RawNames, MaxNames) \ {<<>>} }
    \cup
    { Args(<<>>, x[1], x[2], x[3], 1) : x \in Limits \X {0, 1} \X PageSizes }

InitIter ==
    /\ pc = "iter"
    /\ args \in IterArgs
    /\ catalog \in (IF args.names = <<>> THEN 0..MaxCatalog ELSE {MaxCatalog})
    /\ gen = GenFrame
    /\ cur = None
    /\ yielded = <<>>
    /\ attempted = <<>> /\ processed = 0 /\ commits = <<>>
    /\ db = EmptyStore /\ txn = EmptyStore /\ clock = 1
    /\ reported = None /\ exitCode = "running"
    /\ doc = None /\ applied = None /\ before = EmptyStore /\ once = EmptyStore
    /\ outcome = "none"
    /\ http = None
    /\ ReaderIdle

\* The body of a for loop over the generator that does nothing with the item
TakeItem ==
    /\ pc = "iter"
    /\ cur # None
    /\ cur' = None
    /\ UNCHANGED <<gen, yielded>>
    /\ UNCHANGED nonGenVars

NextIter == GenNext \/ TakeItem

SpecIter == InitIter /\ [][NextIter]_vars
---------------------------------------------------------------------------
(* Properties of target resolution.                                        *)

CrawlMode == args.names = <<>>

\* Number of pages of `size` entries that hold n entries
PagesFor(n, size) == (n + size - 1) \div size

\* min(T, cap) for a crawl from offset 0 (no cap: T)
CappedTotal == IF args.limit = None THEN catalog ELSE Min(catalog, args.limit.value)

\* The first n entries of the catalog, in catalog order
CatalogPrefix(n) == [i \in 1..n |-> Target(CatalogName(i))]

\* C8 (pagination completeness): a crawl from offset 0 over a catalog of T
\* entities that ends without a failed request has yielded exactly the first
\* min(T, cap) entries of the catalog, in catalog order, whatever the page
\* size; and at no time have more listing pages been requested than the
\* pages that hold these min(T, cap) entries (the first page is requested in
\* any case), so no page is requested once the cap has been reached.
C8_PaginationComplete ==
    (pc = "iter" /\ CrawlMode /\ args.offset = 0) =>
        /\ gen.pc = "returned" => yielded = CatalogPrefix(CappedTotal)
        /\ gen.pc # "start" =>
              gen.requests <= Max(1, PagesFor(CappedTotal, gen.capped_page))
        /\ \A i, j \in 1..Len(yielded) : yielded[i] = yielded[j] => i = j

\* C8 witness: a crawl that was cut by the cap after more than one page, with
\* entries of the catalog left unlisted.
C8_Witness ==
    /\ pc = "iter" /\ CrawlMode /\ args.offset = 0
    /\ gen.pc = "returned"
    /\ args.limit # None
    /\ Len(yielded) = args.limit.value
    /\ args.limit.value < catalog
    /\ gen.requests >= 2
    /\ gen.next_url # None

\* The identifiers of a list of names in the order of their first
\* occurrence, compared after trimming and lowercasing.
RECURSIVE FirstOccurrences(_)
FirstOccurrences(names) ==
    IF names = <<>> THEN <<>>
    ELSE LET init == FirstOccurrences(SubSeq(names, 1, Len(names) - 1))
             last == Lower(Strip(names[Len(names)]))
         IN  IF \E i \in 1..Len(init) : init[i] = last
             THEN init
             ELSE Append(init, last)

NonBlank(identifiers) == SelectSeq(identifiers, LAMBDA s : s # <<>>)

TargetsOf(identifiers) ==
    [i \in 1..Len(identifiers) |-> Target(identifiers[i])]

NoListing == gen.requests = 0 /\ gen.pc \in {"start", "names", "returned"}

\* C9 as claimed (explicit-target mode): with a non-empty list of names the
\* generator yields one target per distinct identifier (compared after
\* trimming, case-insensitively), in the order of first occurrence, each with
\* the detail URL built from the identifier, and makes no listing request.
C9_OneTargetPerIdentifier ==
    (pc = "iter" /\ ~CrawlMode) =>
        /\ NoListing
        /\ gen.pc = "returned" =>
              yielded = TargetsOf(FirstOccurrences(args.names))

\* C9 as amended: one target per distinct identifier that is not empty after
\* trimming (a blank name yields no target); the rest as claimed.
C9_OneTargetPerNonBlankIdentifier ==
    (pc = "iter" /\ ~CrawlMode) =>
        /\ NoListing
        /\ gen.pc = "returned" =>
              yielded = TargetsOf(NonBlank(FirstOccurrences(args.names)))

\* C9 witness: a list in which a later name repeats an earlier identifier in
\* another case or with blanks around it, and which yielded two targets.
C9_Witness ==
    /\ pc = "iter" /\ ~CrawlMode
    /\ gen.pc = "returned"
    /\ Len(yielded) = 2
    /\ \E i, j \in 1..Len(args.names) :
          /\ i < j
          /\ args.names[i] # args.names[j]
          /\ Identifier(args.names[i]) = Identifier(args.names[j])
          /\ Identifier(args.names[i]) # <<>>
---------------------------------------------------------------------------
(* Sync orchestrator: process_pokemon and main.                            *)

\* Number of the catalog entity an identifier names (0: the remote has none)
CatalogIndex(identifier, total) ==
    IF \E i \in 1..total : CatalogName(i) = identifier
    THEN CHOOSE i \in 1..total : CatalogName(i) = identifier
    ELSE 0

\* What the remote does during one process_pokemon call.
\*   "entity_error"  the entity request fails (error status, retries exhausted)
\*   "no_species"    the entity document has no species reference
\*   "detail_error"  the species request fails
\*   "renamed"       the entity is served under the name of entity 1
\*   "repeated"      the types list holds two entries for slot 1
\*   "ok"            plain documents
ResponseKinds ==
    {"ok", "entity_error", "no_species", "detail_error", "renamed", "repeated"}

ServedName(id, kind) == IF kind = "renamed" THEN CatalogName(1) ELSE CatalogName(id)

ServedPokemon(id, kind) ==
    [ PokemonDoc(id, ServedName(id, kind), 1, "pokemon_types",
                 IF kind = "repeated" THEN << <<1, 1>>, <<1, 2>> >>
                                      ELSE << <<1, 1>> >>)
      EXCEPT !.species_url = IF kind = "no_species" THEN None ELSE SpeciesUrl(id) ]

ServedSpecies(id, kind) == SpeciesDoc(ServedName(id, kind), 2)

\* process_pokemon: where it raised ("ok" if it did not) and the store as the
\* connection sees it afterwards.
process_pokemon(store, target, kind, total, now) ==
    LET id == CatalogIndex(target.url.id, total)
    IN  IF id = 0 \/ kind = "entity_error"
        THEN [outcome |-> "entity_fetch", store |-> store]
        ELSE IF ServedPokemon(id, kind).species_url = None
        THEN [outcome |-> "missing_species", store |-> store]
        ELSE IF kind = "detail_error"
        THEN [outcome |-> "detail_fetch", store |-> store]
        ELSE UpsertAndSync(store, ServedPokemon(id, kind),
                           ServedSpecies(id, kind), now)

MaxTargets == 3
MaxBatch == 2

OrchNames == { <<"a">>, <<"B">>, <<" ">> }

OrchArgs ==
    { Args(x[1], None, 0, DEFAULT_PAGE_SIZE, x[2]) :
          x \in (SeqsUpTo(OrchNames, MaxTargets) \ {<<>>}) \X (1..MaxBatch) }
    \cup
    { Args(<<>>, x[1], 0, x[2], x[3]) :
          x \in {None, Some(1)} \X {1, 2} \X (1..MaxBatch) }

Init ==
    /\ pc = "connect"
    /\ args \in OrchArgs
    /\ catalog \in (IF args.names = <<>> THEN 0..MaxTargets ELSE {MaxTargets})
    /\ gen = GenFrame
    /\ cur = None
    /\ yielded = <<>>
    /\ attempted = <<>> /\ processed = 0 /\ commits = <<>>
    /\ db = EmptyStore /\ txn = EmptyStore /\ clock = 1
    /\ reported = None /\ exitCode = "running"
    /\ doc = None /\ applied = None /\ before = EmptyStore /\ once = EmptyStore
    /\ outcome = "none"
    /\ http = None
    /\ ReaderIdle

\* Lines 503-512: the connection is opened, the schema ensured and committed
Connect ==
    /\ pc = "connect"
    /\ pc' = "loop"
    /\ UNCHANGED <<args, catalog, gen, cur, yielded, attempted, processed,
                   commits, db, txn, clock, reported, exitCode>>
    /\ UNCHANGED <<doc, applied, before, once, outcome, http, readerVars>>

\* Lines 505-507: sqlite3.connect raises; main logs and returns 1
ConnectFails ==
    /\ pc = "connect"
    /\ pc' = "exited"
    /\ exitCode' = "1"
    /\ UNCHANGED <<args, catalog, gen, cur, yielded, attempted, processed,
                   commits, db, txn, clock, reported>>
    /\ UNCHANGED <<doc, applied, before, once, outcome, http, readerVars>>

Logged(target, result) == [name |-> target.name, result |-> result]

\* Mutant of ProcessFails: the exception is not caught by the loop body; main
\* ends in its finally clause.
ProcessFailsAborts ==
    /\ pc = "loop"
    /\ cur # None
    /\ \E kind \in ResponseKinds :
         LET r == process_pokemon(txn, cur, kind, catalog, clock)
         IN  /\ r.outcome # "ok"
             /\ outcome' = r.outcome
    /\ txn' = db
    /\ attempted' = Append(attempted, Logged(cur, "failed"))
    /\ clock' = clock + 1
    /\ pc' = "exited"
    /\ exitCode' = "raised"
    /\ UNCHANGED <<args, catalog, gen, cur, yielded, processed, commits, db, reported>>
    /\ UNCHANGED <<doc, applied, before, once, http, readerVars>>

\* Lines 522-527: process_pokemon raises; rollback, log, continue
ProcessFails ==
    /\ pc = "loop"
    /\ cur # None
    /\ \E kind \in ResponseKinds :
         LET r == process_pokemon(txn, cur, kind, catalog, clock)
         IN  /\ r.outcome # "ok"
             /\ outcome' = r.outcome
    /\ txn' = db
    /\ attempted' = Append(attempted, Logged(cur, "failed"))
    /\ cur' = None
    /\ clock' = clock + 1
    /\ UNCHANGED <<pc, args, catalog, gen, yielded, processed, commits, db,
                   reported, exitCode>>
    /\ UNCHANGED <<doc, applied, before, once, http, readerVars>>

\* Lines 522-532: process_pokemon returns; count, and commit on a full batch
ProcessOk ==
    /\ pc = "loop"
    /\ cur # None
    /\ \E kind \in ResponseKinds :
         LET r == process_pokemon(txn, cur, kind, catalog, clock)
         IN  /\ r.outcome = "ok"
             /\ outcome' = r.outcome
             /\ txn' = r.store
             /\ IF (processed + 1) % args.batch_size = 0
                THEN /\ db' = r.store
                     /\ commits' = Append(commits, processed + 1)
                ELSE UNCHANGED <<db, commits>>
    /\ processed' = processed + 1
    /\ attempted' = Append(attempted, Logged(cur, "ok"))
    /\ cur' = None
    /\ clock' = clock + 1
    /\ UNCHANGED <<pc, args, catalog, gen, yielded, reported, exitCode>>
    /\ UNCHANGED <<doc, applied, before, once, http, readerVars>>

\* Lines 534-541: the generator is exhausted: commit a partial batch, close,
\* log the count, return 0
Finish ==
    /\ pc = "loop"
    /\ cur = None
    /\ gen.pc = "returned"
    /\ IF processed % args.batch_size # 0
       THEN /\ db' = txn
            /\ commits' = Append(commits, processed)
       ELSE UNCHANGED <<db, commits>>
    /\ reported' = Some(processed)
    /\ exitCode' = "0"
    /\ pc' = "exited"
    /\ UNCHANGED <<args, catalog, gen, cur, yielded, attempted, processed,
                   txn, clock>>
    /\ UNCHANGED <<doc, applied, before, once, outcome, http, readerVars>>

\* Lines 515, 536-538: the generator raised: the finally clause closes the
\* connection (the open transaction is discarded) and the exception leaves main
Abort ==
    /\ pc = "loop"
    /\ cur = None
    /\ gen.pc = "raised"
    /\ txn' = db
    /\ exitCode' = "raised"
    /\ pc' = "exited"
    /\ UNCHANGED <<args, catalog, gen, cur, yielded, attempted, processed,
                   commits, db, clock, reported>>
    /\ UNCHANGED <<doc, applied, before, once, outcome, http, readerVars>>

Next ==
    \/ Connect
    \/ ConnectFails
    \/ GenNext
    \/ ProcessOk
    \/ ProcessFails
    \/ Finish
    \/ Abort

Spec == Init /\ [][Next]_vars
---------------------------------------------------------------------------
(* Properties of the orchestrator.                                         *)

Failures == {i \in 1..Len(attempted) : attempted[i].result = "failed"}
Successes == {i \in 1..Len(attempted) : attempted[i].result = "ok"}

\* The core row of entity `id` and a row of each child table are stored.
Ingested(store, id) ==
    /\ \E r \in store.pokemon : r.id = id
    /\ \A c \in CollectionNames : RowsFor(store, c, id) # {}

\* C1 (partial-failure isolation): when a run has ended in which exactly one
\* target failed, the database holds the core row and the child rows of
\* every other target of the sequence, for every batch size: the rollback
\* for the failed target has not discarded the writes of the targets
\* processed before it.
C1_PartialFailureIsolation ==
    (pc = "exited" /\ exitCode = "0" /\ Cardinality(Failures) = 1) =>
        \A i \in Successes :
            Ingested(db, CatalogIndex(attempted[i].name, catalog))

\* The sequence of target names that target resolution has to produce
ResolvedNames ==
    IF CrawlMode
    THEN [i \in 1..CappedTotal |-> CatalogName(i)]
    ELSE NonBlank(FirstOccurrences(args.names))

\* C2 (a bad entity never aborts the run): every target the resolution
\* yields is passed to process_pokemon exactly once, in order, whether or not
\* an earlier one failed; main ends only when the generator has ended, and a
\* run whose target resolution came to its end has attempted every target of
\* the resolved sequence exactly once.
C2_EveryTargetAttemptedOnce ==
    pc \in {"loop", "exited"} =>
        /\ Len(attempted) = Len(yielded) - (IF cur # None THEN 1 ELSE 0)
        /\ \A i \in 1..Len(attempted) : attempted[i].name = yielded[i].name
        /\ (pc = "exited" /\ exitCode # "1") => gen.pc \in {"returned", "raised"}
        /\ (pc = "exited" /\ gen.pc = "returned") =>
              [i \in 1..Len(attempted) |-> attempted[i].name] = ResolvedNames

\* C2 witness: a finished run of three targets in which a failed target was
\* followed by a successful one.
C2_Witness ==
    /\ pc = "exited" /\ exitCode = "0"
    /\ Len(attempted) = 3
    /\ \E i \in Failures : \E j \in Successes : i < j

\* C3 (summary always reported): once the connection is established, a run
\* ends by logging the count of processed targets and returning 0, whatever
\* failed during the run, a listing request included.
C3_SummaryAlwaysReported ==
    (pc = "exited" /\ exitCode # "1") =>
        /\ reported = Some(processed)
        /\ exitCode = "0"

\* The counts at which the loop commits: K, 2K, ... up to n
FullBatches(n, K) == [i \in 1..(n \div K) |-> i * K]

\* C4 (batched commits): a commit is issued each time the count of processed
\* targets reaches a multiple of K, and once more after the last target if
\* and only if the last batch is partial; failed targets commit nothing.
C4_BatchedCommits ==
    LET K == args.batch_size
    IN  /\ pc = "loop" => commits = FullBatches(processed, K)
        /\ (pc = "exited" /\ exitCode # "1") =>
              commits = IF processed % K # 0
                        THEN Append(FullBatches(processed, K), processed)
                        ELSE FullBatches(processed, K)
---------------------------------------------------------------------------
(* Remote catalog client: one session.get() through the retrying adapter   *)
(* that build_session mounts, followed by raise_for_status (fetch_json).   *)
(* Delays are in seconds.                                                  *)

\* Retry's ceiling on one backoff sleep (its default: build_session sets none)
BACKOFF_MAX == 120

status_forcelist == {429, 500, 502, 503, 504}

\* What one attempt can meet: an HTTP status, or a transport error
Answers ==
    {[status |-> 200], [status |-> 404], [status |-> 503],
     [error |-> "connect"], [error |-> "read"]}

IsStatus(answer) == "status" \in DOMAIN answer

\* Mutant of RetryCounters: max_retries taken as the number of attempts.
RetryCountersAsAttempts(max_retries, backoff) ==
    [ total |-> max_retries - 1, read |-> max_retries - 1,
      connect |-> max_retries - 1, status |-> max_retries - 1,
      backoff_factor |-> backoff ]

\* Retry(total=max_retries, read=max_retries, connect=max_retries,
\*       backoff_factor=backoff, status=max_retries, ...)
RetryCounters(max_retries, backoff) ==
    [ total |-> max_retries, read |-> max_retries, connect |-> max_retries,
      status |-> max_retries, backoff_factor |-> backoff ]

\* Retry.increment: the counters after an attempt that met `answer`
Increment(retry, answer) ==
    [ retry EXCEPT
        !.total   = retry.total - 1,
        !.connect = IF answer = [error |-> "connect"] THEN retry.connect - 1 ELSE retry.connect,
        !.read    = IF answer = [error |-> "read"] THEN retry.read - 1 ELSE retry.read,
        !.status  = IF IsStatus(answer) THEN retry.status - 1 ELSE retry.status ]

\* Retry.is_exhausted: some counter has gone below zero
Exhausted(retry) ==
    retry.total < 0 \/ retry.connect < 0 \/ retry.read < 0 \/ retry.status < 0

\* Retry.is_retry for a GET that was answered with a status (no Retry-After)
IsRetry(answer) == IsStatus(answer) /\ answer.status \in status_forcelist

RECURSIVE Pow2(_)
Pow2(n) == IF n = 0 THEN 1 ELSE 2 * Pow2(n - 1)

\* Retry.get_backoff_time after `errors` consecutive failed attempts
BackoffTime(backoff_factor, errors) ==
    IF errors <= 1 THEN 0
    ELSE Min(BACKOFF_MAX, backoff_factor * Pow2(errors - 1))

MaxRetries == 4
Backoffs == {0, 1, 40}

InitRetry ==
    /\ pc = "http"
    /\ OrchIdle
    /\ txn = EmptyStore /\ clock = 1
    /\ doc = None /\ applied = None /\ before = EmptyStore /\ once = EmptyStore
    /\ outcome = "none"
    /\ ReaderIdle
    /\ \E n \in 0..MaxRetries, b \in Backoffs :
          http = [ max_retries |-> n,
                   retry    |-> RetryCounters(n, b),
                   history  |-> <<>>,
                   delays   |-> <<>>,
                   result   |-> "pending" ]

httpUnchanged ==
    /\ UNCHANGED <<pc, txn, clock, doc, applied, before, once, outcome>>
    /\ UNCHANGED readerVars
    /\ UNCHANGED <<args, catalog, gen, cur, yielded, attempted, processed,
                   commits, db, reported, exitCode>>

\* An attempt fails in a way the policy retries, and retries are left: the
\* adapter sleeps for the backoff time and sends again.
HttpRetry ==
    /\ pc = "http"
    /\ http.result = "pending"
    /\ \E answer \in Answers :
         LET after == Increment(http.retry, answer)
             hist  == Append(http.history, answer)
         IN  /\ ~IsStatus(answer) \/ IsRetry(answer)
             /\ ~Exhausted(after)
             /\ http' = [http EXCEPT
                           !.retry = after,
                           !.history = hist,
                           !.delays = Append(http.delays,
                                 BackoffTime(after.backoff_factor, Len(hist)))]
    /\ httpUnchanged

\* An attempt is answered with a status that ends the call: one the policy
\* does not retry, or a retried one with the retries used up
\* (raise_on_status=False hands the last response back).  fetch_json then
\* runs raise_for_status: a 4xx/5xx status raises HTTPError.
HttpRespond ==
    /\ pc = "http"
    /\ http.result = "pending"
    /\ \E answer \in Answers :
         /\ IsStatus(answer)
         /\ IsRetry(answer) => Exhausted(Increment(http.retry, answer))
         /\ http' = [http EXCEPT
                       !.retry = IF IsRetry(answer)
                                 THEN Increment(http.retry, answer)
                                 ELSE http.retry,
                       !.history = Append(http.history, answer),
                       !.result = IF answer.status >= 400 THEN "HTTPError" ELSE "json"]
    /\ httpUnchanged

\* A transport error with the retries used up: MaxRetryError, which
\* session.get raises as ConnectionError.
HttpGiveUp ==
    /\ pc = "http"
    /\ http.result = "pending"
    /\ \E answer \in Answers :
         /\ ~IsStatus(answer)
         /\ Exhausted(Increment(http.retry, answer))
         /\ http' = [http EXCEPT
                       !.retry = Increment(http.retry, answer),
                       !.history = Append(http.history, answer),
                       !.result = "ConnectionError"]
    /\ httpUnchanged

NextRetry == HttpRetry \/ HttpRespond \/ HttpGiveUp

SpecRetry == InitRetry /\ [][NextRetry]_vars

Always503 == \A i \in 1..Len(http.history) : http.history[i] = [status |-> 503]

Attempts == Len(http.history)

\* C10 as claimed (retry exhaustion): a call against an endpoint that always
\* answers 503, by a client configured with N max retries, ends after
\* exactly N attempts in a fatal error for the call, and the delay between
\* successive attempts is strictly increasing.
C10_ExactlyNAttempts ==
    (pc = "http" /\ http.result # "pending" /\ Always503) =>
        /\ Attempts = http.max_retries
        /\ http.result = "HTTPError"
        /\ \A k \in 1..(Len(http.delays) - 1) : http.delays[k] < http.delays[k + 1]

\* C10 as amended: the call ends after exactly N + 1 attempts (the first
\* request and N retries) in a fatal error for the call; the delay between
\* successive attempts never decreases, and it increases strictly as long as
\* the backoff factor is positive and the delay is below the 120 s ceiling.
C10_NRetriesThenError ==
    (pc = "http" /\ http.result # "pending" /\ Always503) =>
        /\ Attempts = http.max_retries + 1
        /\ Len(http.delays) = http.max_retries
        /\ http.result = "HTTPError"
        /\ \A k \in 1..(Len(http.delays) - 1) :
              /\ http.delays[k] <= http.delays[k + 1]
              /\ \/ http.delays[k] < http.delays[k + 1]
                 \/ http.retry.backoff_factor = 0
                 \/ http.delays[k] = BACKOFF_MAX

\* C10 witness: a call with 3 max retries and a positive backoff factor that
\* met only 503 and has ended, after growing delays.
C10_Witness ==
    /\ pc = "http"
    /\ http.max_retries = 3
    /\ http.retry.backoff_factor = 1
    /\ http.result = "HTTPError"
    /\ Always503
    /\ http.delays = <<0, 2, 4>>
---------------------------------------------------------------------------
(* Consumers of the store: the genealogy graph builder of the web UI       *)
(* (app.py: load_evolution_graph, build_evolution_chain) and of the static *)
(* exporter (export_static_data.py: build_evolution_index, build_chain).   *)
(* A species slug is a string; a pokemon row is the id, the name and the   *)
(* two fields of species_json that the builders read.  The localized names *)
(* of a node are passed through unread and are left out of the nodes.      *)

\* The species slugs of the model, in the order of Python's str comparison
Slugs == <<"a", "b", "c">>

SlugRank(slug) == CHOOSE i \in 1..Len(Slugs) : Slugs[i] = slug

\* name column of the row with a given id (UNIQUE in the pokemon table)
PokemonName(id) == <<"p", id>>

\* dict helpers: d[k] = v, and d.get(k, default)
Put(d, k, v) == [x \in DOMAIN d \cup {k} |-> IF x = k THEN v ELSE d[x]]
Get(d, k, default) == IF k \in DOMAIN d THEN d[k] ELSE default

\* list.sort(): a stable sort of `items` by the integer keys `keys`
StableSort(items, keys) ==
    LET n == Len(items)
        Before(j, i) == keys[j] < keys[i] \/ (keys[j] = keys[i] /\ j < i)
        Pos(i) == 1 + Cardinality({ j \in 1..n : Before(j, i) })
    IN  [k \in 1..n |-> items[CHOOSE i \in 1..n : Pos(i) = k]]

\* siblings.sort() on a list of species slugs
SortSlugs(siblings) ==
    StableSort(siblings, [i \in 1..Len(siblings) |-> SlugRank(siblings[i])])

\* stage_entries.sort(key=lambda item: item["id"])
SortById(stage_entries) ==
    StableSort(stage_entries, [i \in 1..Len(stage_entries) |-> stage_entries[i].id])

\* a value is truthy: not None and not the empty string
Truthy(v) == v # None /\ v.value # ""

\* (species.get("evolves_from_species") or {}).get("name")
ParentOf(species_json) ==
    IF species_json.evolves_from_species = None
    THEN None
    ELSE Some(species_json.evolves_from_species.name)

\* One iteration of the loop over the rows (app.py 140-152, export 170-184);
\* the exporter skips a row whose species has no name.
IndexRow(g, row, skip_unnamed) ==
    LET species_name == row.species_json.name
        parent == ParentOf(row.species_json)
        node == [id |-> row.id, slug |-> row.name, parent |-> parent]
    IN  IF skip_unnamed /\ species_name = ""
        THEN g
        ELSE [ index    |-> Put(g.index, species_name, node),
               children |-> IF Truthy(parent)
                            THEN Put(g.children, parent.value,
                                     Append(Get(g.children, parent.value, <<>>),
                                            species_name))
                            ELSE g.children ]

EmptyGraph == [index |-> <<>>, children |-> <<>>]

\* The stores the builders are run on: up to MaxEntities pokemon rows with
\* ids 1, 2, ...; each row names its species and, possibly, the species it
\* evolves from (which need not be the species of any row).
MaxEntities == 3

SlugSet == {Slugs[i] : i \in 1..Len(Slugs)}

SpeciesJson(species_name, parent) ==
    [ name |-> species_name,
      evolves_from_species |-> IF parent = None THEN None ELSE [name |-> parent.value] ]

PokemonRow(id, species_name, parent) ==
    [id |-> id, name |-> PokemonName(id), species_json |-> SpeciesJson(species_name, parent)]

Parents == {None} \cup {Some(s) : s \in SlugSet}

\* The condition of the root-resolution loop (app.py 164, export 194) with
\* the parent check left out: the walk stops at the queried species.
RootContinuesNever(g, root) == FALSE

\* The same condition without `index[root]["parent"] in index`.
RootContinuesUnchecked(g, root) == Truthy(Get(g.index, root, [parent |-> None]).parent)

\* index.get(root, {}).get("parent") and index[root]["parent"] in index
RootContinues(g, root) ==
    LET parent == Get(g.index, root, [parent |-> None]).parent
    IN  Truthy(parent) /\ parent.value \in DOMAIN g.index

\* What a stage holds for a node: the web UI appends the node of the index
\* itself, the exporter a new dict without the parent.
StageEntry(builder, node) ==
    IF builder = "web"
    THEN node
    ELSE [id |-> node.id, slug |-> node.slug]

\* The body of `for name in current` without the test of the visited set.
VisitUnguarded(g, builder, name, acc) ==
    IF name \notin DOMAIN g.index
    THEN acc
    ELSE [ visited       |-> acc.visited \cup {name},
           stage_entries |-> Append(acc.stage_entries, StageEntry(builder, g.index[name])),
           next_stage    |-> acc.next_stage \o Get(g.children, name, <<>>) ]

\* The body of `for name in current` (app.py 172-179, export 202-215)
Visit(g, builder, name, acc) ==
    IF name \in acc.visited \/ name \notin DOMAIN g.index
    THEN acc
    ELSE [ visited       |-> acc.visited \cup {name},
           stage_entries |-> Append(acc.stage_entries, StageEntry(builder, g.index[name])),
           next_stage    |-> acc.next_stage \o Get(g.children, name, <<>>) ]

RECURSIVE VisitAll(_, _, _, _)
VisitAll(g, builder, current, acc) ==
    IF current = <<>>
    THEN acc
    ELSE VisitAll(g, builder, Tail(current), Visit(g, builder, Head(current), acc))

\* One iteration of `while current` (app.py 169-182, export 199-219)
StageStep(g, frame) ==
    LET acc == VisitAll(g, frame.builder, frame.current,
                        [ visited |-> frame.visited, stage_entries |-> <<>>,
                          next_stage |-> <<>> ])
        entries == IF frame.builder = "export"
                   THEN SortById(acc.stage_entries)
                   ELSE acc.stage_entries
    IN  [frame EXCEPT !.visited = acc.visited,
                      !.stages  = IF acc.stage_entries # <<>>
                                  THEN Append(frame.stages, entries)
                                  ELSE frame.stages,
                      !.current = acc.next_stage]

\* The frame of a call for `species_name`, before the graph is loaded
ChainFrame(builder, species_name, count, order) ==
    [ builder |-> builder, species_name |-> species_name, pc |-> "load",
      count |-> count, order |-> order,
      root |-> "", stages |-> <<>>, current |-> <<>>, visited |-> {} ]

chainUnchanged ==
    /\ UNCHANGED <<pc, txn, clock, doc, applied, before, once, outcome, http>>
    /\ UNCHANGED <<args, catalog, gen, cur, yielded, attempted, processed,
                   commits, db, reported, exitCode>>


\* app.py 140-152 / export 170-184: one iteration of `for row in rows`; the
\* row that the cursor delivers is drawn here, its id given by the order
LoadRow(species_name, parent) ==
    /\ pc = "chain" /\ chain.pc = "load"
    /\ Len(loadedRows) < chain.count
    /\ LET k == Len(loadedRows) + 1
           id == IF chain.order = "asc" THEN k ELSE chain.count + 1 - k
           row == PokemonRow(id, species_name, parent)
       IN  /\ loadedRows' = Append(loadedRows, row)
           /\ graph' = IndexRow(graph, row, chain.builder = "export")
    /\ UNCHANGED <<chain, speciesBlob, localized>>
    /\ chainUnchanged

\* app.py 153 / export 185-187: the graph is returned (the exporter sorts
\* every children list first)
LoadDone ==
    /\ pc = "chain" /\ chain.pc = "load"
    /\ Len(loadedRows) = chain.count
    /\ graph' = IF chain.builder = "web"
                THEN graph
                ELSE [graph EXCEPT !.children =
                        [p \in DOMAIN graph.children |-> SortSlugs(graph.children[p])]]
    /\ chain' = [chain EXCEPT !.pc = "call"]
    /\ UNCHANGED <<loadedRows, speciesBlob, localized>>
    /\ chainUnchanged

\* app.py 161-162 / export 191-192: `return []`
ChainNotIndexed ==
    /\ pc = "chain" /\ chain.pc = "call"
    /\ chain.species_name \notin DOMAIN graph.index
    /\ chain' = [chain EXCEPT !.pc = "done", !.stages = <<>>]
    /\ UNCHANGED <<loadedRows, graph, speciesBlob, localized>>
    /\ chainUnchanged

\* app.py 163 / export 193: root = species_name
ChainEnter ==
    /\ pc = "chain" /\ chain.pc = "call"
    /\ chain.species_name \in DOMAIN graph.index
    /\ chain' = [chain EXCEPT !.pc = "root", !.root = chain.species_name]
    /\ UNCHANGED <<loadedRows, graph, speciesBlob, localized>>
    /\ chainUnchanged

\* app.py 164-165 / export 194-195: one iteration of the root-resolution loop
RootStep ==
    /\ pc = "chain" /\ chain.pc = "root"
    /\ RootContinues(graph, chain.root)
    /\ chain' = [chain EXCEPT !.root = graph.index[chain.root].parent.value]
    /\ UNCHANGED <<loadedRows, graph, speciesBlob, localized>>
    /\ chainUnchanged

\* The loop of app.py 164 leaving at any iteration, also while its condition
\* holds.
RootFoundAnyTime ==
    /\ pc = "chain" /\ chain.pc = "root"
    /\ chain' = [chain EXCEPT !.pc = "stage", !.stages = <<>>,
                              !.current = <<chain.root>>, !.visited = {}]
    /\ UNCHANGED <<loadedRows, graph, speciesBlob, localized>>
    /\ chainUnchanged

\* app.py 166-168 / export 196-198: the loop ends, the traversal is set up
RootFound ==
    /\ pc = "chain" /\ chain.pc = "root"
    /\ ~RootContinues(graph, chain.root)
    /\ chain' = [chain EXCEPT !.pc = "stage", !.stages = <<>>,
                              !.current = <<chain.root>>, !.visited = {}]
    /\ UNCHANGED <<loadedRows, graph, speciesBlob, localized>>
    /\ chainUnchanged

\* app.py 169-182 / export 199-219: one stage of the traversal
Stage ==
    /\ pc = "chain" /\ chain.pc = "stage"
    /\ chain.current # <<>>
    /\ chain' = StageStep(graph, chain)
    /\ UNCHANGED <<loadedRows, graph, speciesBlob, localized>>
    /\ chainUnchanged

\* app.py 183 / export 220: `return stages`
ChainReturn ==
    /\ pc = "chain" /\ chain.pc = "stage"
    /\ chain.current = <<>>
    /\ chain' = [chain EXCEPT !.pc = "done"]
    /\ UNCHANGED <<loadedRows, graph, speciesBlob, localized>>
    /\ chainUnchanged


InitChain ==
    /\ pc = "chain"
    /\ OrchIdle
    /\ txn = EmptyStore /\ clock = 1
    /\ doc = None /\ applied = None /\ before = EmptyStore /\ once = EmptyStore
    /\ outcome = "none"
    /\ http = None
    /\ speciesBlob = None /\ localized = None
    /\ graph = EmptyGraph
    /\ loadedRows = <<>>
    \* app.py 135-137 selects without ORDER BY: the rows come in the order of
    \* a scan of the table, forwards or backwards; export 234-236 orders by id
    /\ \E builder \in {"web", "export"}, species_name \in SlugSet,
          count \in 0..MaxEntities, order \in {"asc", "desc"} :
          /\ builder = "export" => order = "asc"
          /\ chain = ChainFrame(builder, species_name, count, order)

NextChain ==
    \/ \E species_name \in SlugSet, parent \in Parents : LoadRow(species_name, parent)
    \/ LoadDone
    \/ ChainNotIndexed
    \/ ChainEnter
    \/ RootStep
    \/ RootFound
    \/ Stage
    \/ ChainReturn

SpecChain == InitChain /\ [][NextChain]_vars

\* The scheduling of a single-threaded call: it runs on while it can.
SpecChainLive == SpecChain /\ WF_vars(NextChain)

---------------------------------------------------------------------------
(* Properties of the genealogy graph builder.  The forest is read off the  *)
(* loaded rows, not off the index the builder made of them.                *)

IndexedSpecies == { loadedRows[i].species_json.name : i \in DOMAIN loadedRows }

RowsOfSpecies(s) == { i \in DOMAIN loadedRows : loadedRows[i].species_json.name = s }

\* the parents that the rows of species s declare
DeclaredParents(s) == { ParentOf(loadedRows[i].species_json) : i \in RowsOfSpecies(s) }

\* the parent of the index entry of s: the one its last loaded row declares
IndexParent(s) ==
    LET last == CHOOSE i \in RowsOfSpecies(s) : \A j \in RowsOfSpecies(s) : j <= i
    IN  IF RowsOfSpecies(s) = {} THEN None ELSE ParentOf(loadedRows[last].species_json)

HasIndexedParent(s) ==
    s \in IndexedSpecies /\ Truthy(IndexParent(s)) /\ IndexParent(s).value \in IndexedSpecies

\* s, its parent, its grandparent, ...: at most fuel + 1 species
RECURSIVE Ancestry(_, _)
Ancestry(s, fuel) ==
    IF fuel = 0 \/ ~HasIndexedParent(s)
    THEN <<s>>
    ELSE <<s>> \o Ancestry(IndexParent(s).value, fuel - 1)

Lineage(s) == Ancestry(s, Cardinality(IndexedSpecies))

\* the walk of parent pointers from s ends at a species without indexed parent
WalkEnds(s) == ~HasIndexedParent(Lineage(s)[Len(Lineage(s))])

\* Every species has one declared parent, and no species is its own ancestor.
IsForest ==
    /\ \A s \in IndexedSpecies : Cardinality(DeclaredParents(s)) = 1
    /\ \A s \in IndexedSpecies : WalkEnds(s)

TreeRoot(s) == Lineage(s)[Len(Lineage(s))]
Depth(s) == Len(Lineage(s)) - 1

\* the species of the pokemon row that a stage entry was made of
SpeciesOfEntry(entry) ==
    LET i == CHOOSE j \in DOMAIN loadedRows : loadedRows[j].id = entry.id
    IN  loadedRows[i].species_json.name

StageSpecies(stage) == { SpeciesOfEntry(stage[i]) : i \in DOMAIN stage }

ChainDone == pc = "chain" /\ chain.pc = "done"

AtDepth(root, k) == { s \in IndexedSpecies : TreeRoot(s) = root /\ Depth(s) = k }

\* C11: Genealogy staging.  On a forest, the chain returned for an indexed
\* species has the root of its tree alone in stage 0 and in stage k exactly
\* the species at depth k below that root, down to the deepest one; the
\* chain is empty exactly when the queried species is not indexed.
C11_GenealogyStaging ==
    (ChainDone /\ IsForest) =>
        LET q == chain.species_name
            stages == chain.stages
        IN  /\ (stages = <<>>) <=> (q \notin IndexedSpecies)
            /\ q \in IndexedSpecies =>
                 /\ Len(stages[1]) = 1
                 /\ StageSpecies(stages[1]) = {TreeRoot(q)}
                 /\ \A k \in 1..Len(stages) :
                       /\ StageSpecies(stages[k]) = AtDepth(TreeRoot(q), k - 1)
                       /\ Len(stages[k]) = Cardinality(AtDepth(TreeRoot(q), k - 1))
                 /\ AtDepth(TreeRoot(q), Len(stages)) = {}

\* a root with two children has been staged from one of the children
C11_Witness ==
    /\ ChainDone /\ IsForest
    /\ chain.species_name = "c"
    /\ Len(chain.stages) = 2
    /\ StageSpecies(chain.stages[1]) = {"a"}
    /\ StageSpecies(chain.stages[2]) = {"b", "c"}

\* two staged species are children of the same parent
Siblings(s, t) == Truthy(IndexParent(s)) /\ IndexParent(s) = IndexParent(t)

AscendingSiblings(stage) ==
    \A i, j \in DOMAIN stage :
        (i < j /\ Siblings(SpeciesOfEntry(stage[i]), SpeciesOfEntry(stage[j])))
            => stage[i].id < stage[j].id

\* C12: Sibling order.  In every chain returned by either builder, children
\* of the same parent stand within their stage in ascending order of id,
\* whatever the order in which the rows were loaded.
C12_SiblingOrder ==
    ChainDone => \A k \in DOMAIN chain.stages : AscendingSiblings(chain.stages[k])

\* The same for the exporter alone, which sorts every stage by id.
ExporterSiblingOrder == chain.builder = "export" => C12_SiblingOrder

\* the index entry of x names a parent that no loaded row is a species of
HasDanglingParent(x) ==
    /\ x \in IndexedSpecies
    /\ Truthy(IndexParent(x))
    /\ IndexParent(x).value \notin IndexedSpecies

\* x is q or one of the ancestors that the parent pointers lead to from q
OnLineage(x, q) == \E i \in DOMAIN Lineage(q) : Lineage(q)[i] = x

RowIds == { loadedRows[i].id : i \in DOMAIN loadedRows }

\* C13: Dangling parent tolerance.  When the chain is asked for a species
\* with a dangling parent, or for an indexed descendant of one, the call
\* returns, that species is the only member of stage 0, and every staged
\* entry is a loaded row whose species is not the missing parent.
C13_DanglingParentIsRoot ==
    \A x \in IndexedSpecies :
        (ChainDone /\ HasDanglingParent(x) /\ OnLineage(x, chain.species_name)) =>
            /\ Len(chain.stages) >= 1
            /\ Len(chain.stages[1]) = 1
            /\ StageSpecies(chain.stages[1]) = {x}
            /\ \A k \in DOMAIN chain.stages : \A i \in DOMAIN chain.stages[k] :
                  /\ chain.stages[k][i].id \in RowIds
                  /\ SpeciesOfEntry(chain.stages[k][i]) # IndexParent(x).value

\* the chain of a child of a species with a dangling parent has been returned
C13_Witness ==
    /\ ChainDone
    /\ chain.species_name = "b"
    /\ HasDanglingParent("a")
    /\ IndexParent("b") = Some("a")
    /\ Len(chain.stages) = 2

---------------------------------------------------------------------------
(* Localized names: extract_localized_names of app.py (28-54) and of       *)
(* export_static_data.py (47-69), which are the same code.  A string that  *)
(* may be missing is None or Some(string).                                 *)

\* str.lower() on the language tags of the model
LangLower(lang_raw) ==
    CASE lang_raw = "ja-Hrkt" -> "ja-hrkt"
      [] lang_raw = "zh-Hans" -> "zh-hans"
      [] lang_raw = "zh-Hant" -> "zh-hant"
      [] OTHER -> lang_raw

\* lang = lang_raw.lower() if lang_raw else None
LangOf(entry) ==
    IF Truthy(entry.language.name)
    THEN Some(LangLower(entry.language.name.value))
    ELSE None

\* a or b
Or(a, b) == IF Truthy(a) THEN a ELSE b

\* One iteration of `for entry in species.get("names", [])` (app.py 36-49)
NamesEntry(acc, entry) ==
    LET lang == LangOf(entry)
        value == entry.name
    IN  IF ~Truthy(value) THEN acc
        ELSE IF lang = Some("en") THEN [acc EXCEPT !.en = value]
        ELSE IF lang \in {Some("ja"), Some("ja-hrkt")} THEN [acc EXCEPT !.ja = value]
        ELSE IF lang = Some("zh-hans") THEN [acc EXCEPT !.zh_hans = value]
        ELSE IF lang = Some("zh-hant") THEN [acc EXCEPT !.zh_hant = value]
        ELSE acc

RECURSIVE NamesLoop(_, _)
NamesLoop(acc, entries) ==
    IF entries = <<>>
    THEN acc
    ELSE NamesLoop(NamesEntry(acc, Head(entries)), Tail(entries))

extract_localized_names(species) ==
    LET acc == NamesLoop([ en |-> species.name, ja |-> None,
                           zh_hans |-> None, zh_hant |-> None ],
                         species.names)
        zh == Or(Or(acc.zh_hans, acc.zh_hant), acc.en)
    IN  [ en |-> acc.en,
          ja |-> IF ~Truthy(acc.ja) THEN acc.en ELSE acc.ja,
          zh |-> IF ~Truthy(zh) THEN acc.en ELSE zh ]

MaxEntries == 3

Languages == {Some("en"), Some("ja"), Some("ja-Hrkt"), Some("zh-Hans"), Some("fr"), None}
NameValues == {Some("X"), Some("Y"), Some("")}

NameEntry(lang_raw, value) == [language |-> [name |-> lang_raw], name |-> value]

SpeciesBlobs ==
    { [ name |-> Some("slug"),
        names |-> [i \in DOMAIN f |-> NameEntry(f[i][1], f[i][2])] ] :
          f \in SeqsUpTo(Languages \X NameValues, MaxEntries) }

InitNames ==
    /\ pc = "names"
    /\ OrchIdle
    /\ txn = EmptyStore /\ clock = 1
    /\ doc = None /\ applied = None /\ before = EmptyStore /\ once = EmptyStore
    /\ outcome = "none"
    /\ http = None
    /\ loadedRows = <<>> /\ graph = None /\ chain = None
    /\ speciesBlob \in SpeciesBlobs
    /\ localized = None

\* names = extract_localized_names(species)
ExtractNames ==
    /\ pc = "names"
    /\ localized' = extract_localized_names(speciesBlob)
    /\ pc' = "names_done"
    /\ UNCHANGED <<txn, clock, doc, applied, before, once, outcome, http>>
    /\ UNCHANGED <<args, catalog, gen, cur, yielded, attempted, processed,
                   commits, db, reported, exitCode>>
    /\ UNCHANGED <<loadedRows, graph, chain, speciesBlob>>

NextNames == ExtractNames

SpecNames == InitNames /\ [][NextNames]_vars

\* the truthy values of the entries whose tag, lowercased, is `lang`
ValuesTagged(lang) ==
    { speciesBlob.names[i].name : i \in
        { j \in DOMAIN speciesBlob.names :
            /\ LangOf(speciesBlob.names[j]) = Some(lang)
            /\ Truthy(speciesBlob.names[j].name) } }

\* the resolved English value: an entry tagged en, or the raw slug
ResolvedEnglish(v) ==
    IF ValuesTagged("en") # {} THEN v \in ValuesTagged("en") ELSE v = speciesBlob.name

\* C14: Japanese name resolution.  Whatever the order of the entries, 'ja'
\* is the value of an entry tagged ja if there is one, else the value of an
\* entry tagged ja-hrkt if there is one, else the resolved English value.
C14_JapanesePrefersJa ==
    pc = "names_done" =>
        IF ValuesTagged("ja") # {} THEN localized.ja \in ValuesTagged("ja")
        ELSE IF ValuesTagged("ja-hrkt") # {} THEN localized.ja \in ValuesTagged("ja-hrkt")
        ELSE ResolvedEnglish(localized.ja)

\* the walk of parent pointers from the queried species enters a cycle
WalkCyclic ==
    /\ chain.species_name \in IndexedSpecies
    /\ ~WalkEnds(chain.species_name)

\* C15: Termination.  A call returns if and only if the walk of parent
\* pointers from the queried species through indexed species does not enter
\* a cycle: it returns on every other input, and on a cyclic walk it stays
\* in the root-resolution loop for ever.
C15_TerminatesIffAcyclic ==
    /\ (pc = "chain" /\ chain.pc # "load" /\ ~WalkCyclic) ~> ChainDone
    /\ [](pc = "chain" /\ WalkCyclic => chain.pc \in {"load", "call", "root"})

\* the root-resolution loop has gone round a cycle of two species
C15_Witness ==
    /\ pc = "chain" /\ chain.pc = "root"
    /\ chain.species_name = "a"
    /\ IndexParent("a") = Some("b") /\ IndexParent("b") = Some("a")
    /\ chain.root = "b"

---------------------------------------------------------------------------
(* The orchestrator's report against the store.                            *)

\* the attempted targets whose core row is in the database file
CommittedTargets ==
    { i \in 1..Len(attempted) :
        \E r \in db.pokemon : r.id = CatalogIndex(attempted[i].name, catalog) }

\* C16: Reported count matches the store.  When a run from an empty store
\* has ended and reported its count, the count is the number of targets
\* whose core row is committed, for every batch size and every pattern of
\* per-target failures (the targets of a run are distinct by construction).
C16_ReportedMatchesStore ==
    (pc = "exited" /\ reported # None) =>
        reported.value = Cardinality(CommittedTargets)

---------------------------------------------------------------------------
(* The visited set of the staged traversal.                                *)

\* every staged entry, stage after stage
RECURSIVE Flatten(_)
Flatten(stages) ==
    IF stages = <<>> THEN <<>> ELSE Head(stages) \o Flatten(Tail(stages))

\* some species has several rows, so that a children list repeats a child
RepeatedChild ==
    \E p \in DOMAIN graph.children :
        \E i, j \in DOMAIN graph.children[p] :
            i # j /\ graph.children[p][i] = graph.children[p][j]

\* the children relation leads from the root back to the root
RECURSIVE Below(_, _)
Below(names, fuel) ==
    LET next == UNION { Range(Get(graph.children, n, <<>>)) : n \in names }
    IN  IF fuel = 0 THEN next ELSE next \cup Below(next, fuel - 1)

ChildrenCycleAtRoot ==
    chain.pc \in {"stage", "done"} /\ chain.root \in Below({chain.root}, Len(Slugs))

\* C17: No slug is staged twice.  In the chain a call has built so far, and
\* in the one it returns, every species occurs at most once over all stages
\* and no stage is empty, also when a children list repeats a child or the
\* children relation below the root has a cycle.
C17_NoSlugStagedTwice ==
    (pc = "chain" /\ chain.pc \in {"stage", "done"}) =>
        LET entries == Flatten(chain.stages)
        IN  /\ \A i, j \in DOMAIN entries :
                 i # j => /\ SpeciesOfEntry(entries[i]) # SpeciesOfEntry(entries[j])
                          /\ entries[i].slug # entries[j].slug
            /\ \A k \in DOMAIN chain.stages : chain.stages[k] # <<>>

\* a chain has been returned over a children list that repeats a child and a
\* children relation that leads back to the root
C17_Witness ==
    /\ ChainDone
    /\ RepeatedChild
    /\ ChildrenCycleAtRoot
    /\ chain.stages # <<>>

=============================================================================
